---- MODULE Spec2Model ----
(***************************************************************************)
(* Ingestion and conversational retrieval of the e-book backend.           *)
(*                                                                         *)
(*   Spec          awakened/batch_processor.py: BatchPDFProcessor runs     *)
(*                 (process_all_pdfs) of concurrent workers over one       *)
(*                 bucket, one DynamoDB table and one Pinecone namespace.  *)
(*   SpecAuto      awakened/auto-index.py: EbookProcessor.process_all_files *)
(*                 over the uploads of its bucket.                         *)
(*   SpecIndexing  auto-indexing.py: process_files, which embeds with      *)
(*                 ai/langchain.py text_embedding.                         *)
(*   SpecChunker   the chunkers: EbookProcessor.chunk_text and            *)
(*                 BatchPDFProcessor.create_chunks, each on one text.      *)
(*   SpecUpload    BatchPDFProcessor.batch_upload_vectors, on one list of  *)
(*                 embeddings.                                             *)
(*   SpecChat      ai/langchain.py: one chat request, streamed             *)
(*                 (get_response) or whole (get_response_chat).            *)
(*   SpecCompress  awakened/compress_ebook.py, s3_ebook_compress.py:       *)
(*                 EbookCompressor.process_file on one file.               *)
(*   SpecAssistants  id_and_tag/id.py: EbookProcessor.process_files over   *)
(*                 the compressed files.                                   *)
(*   SpecVerify    PineconeManager.verify_connection and                   *)
(*                 BatchPDFProcessor.verify_pinecone.                      *)
(***************************************************************************)
EXTENDS Integers, Sequences, FiniteSets, TLC

(***************************************************************************)
(* Bounds of the model.                                                    *)
(***************************************************************************)
\* External failures (a raising S3, OpenAI or Pinecone call, a malformed
\* embedding) injected in one behaviour.
MaxFaults == 3
\* Chunks of the large document: more than one upsert batch.
BigDoc == 101
\* Chunks of the small document.
SmallDoc == 2
\* Characters of a chunk that is one long sentence.
LongChunk == 3001
\* Invocations of a script that works through its bucket alone
\* (auto-index.py, auto-indexing.py), one after the other.
MaxInvocations == 2
\* Characters of a text handed to a chunker.
MaxText == 4
\* The chunk size limits tried: 1..MaxLimit.
MaxLimit == 3
\* Bytes of a source file handed to a compressor.
MaxSize == 3
\* Calls of EbookCompressor.process_file on one file.
MaxCalls == 2
\* Messages of a chat request.
MaxTurns == 3
\* Deltas of a streamed answer.
MaxDeltas == 2

(***************************************************************************)
(* Program constants.                                                      *)
(***************************************************************************)
EMBEDDING_BATCH_SIZE == 50
batch_size == 100
max_retries == 3
dimension == 1536
CHUNK_SIZE == 1000
\* str(chunk.get('text', ''))[:3000]
METADATA_TEXT_LIMIT == 3000

\* The invocations of the script: main() runs process_all_pdfs once and exits.
\* Nothing in the code keeps two invocations from overlapping.
Workers == {"w1", "w2"}

\* The PDF keys under the indexed/ prefix, in the order S3 lists them.
Listing == <<"a.pdf", "b.pdf">>
FileKeys == {Listing[k] : k \in DOMAIN Listing}

\* Chunks process_single_pdf extracts from each file (create_chunks over its pages).
NChunks(file_key) == IF file_key = "a.pdf" THEN BigDoc ELSE SmallDoc

\* hashlib.md5(file_key).hexdigest(): a digest of the key, not the key.
generate_file_id(file_key) == IF file_key = "a.pdf" THEN "md5-a" ELSE "md5-b"
FileIds == {generate_file_id(k) : k \in FileKeys}

Min(a, b) == IF a < b THEN a ELSE b

\* The length in characters of the text of chunk k of a file: create_chunks
\* fills a chunk up to CHUNK_SIZE, and emits a longer sentence whole.
ChunkLength(file_key, k) ==
    IF file_key # "a.pdf" /\ k = 0 THEN LongChunk ELSE CHUNK_SIZE

\* all_chunks of process_single_pdf for a file: each chunk with its text, a
\* text being known by where it comes from and by its length.
Chunks(file_key) ==
    [k \in 1..NChunks(file_key) |->
        [text |-> [of |-> <<file_key, k - 1>>, length |-> ChunkLength(file_key, k - 1)]]]

\* text[:n]
Truncate(text, n) == [text EXCEPT !.length = Min(text.length, n)]

\* Mutant: the slice takes one element more.
SliceOneMore(s, i, n) == SubSeq(s, i + 1, Min(i + n + 1, Len(s)))

\* Python's s[i:i+n] on a list, i counted from 0.
Slice(s, i, n) == SubSeq(s, i + 1, Min(i + n, Len(s)))

Range(s) == {s[k] : k \in DOMAIN s}

VARIABLES
    index,      \* the Pinecone namespace: its vectors [id, values, metadata]
    completed,  \* file keys that exist under the completed/ prefix
    table,      \* DynamoDB file_processing_status: file_id -> attributes
    worker,     \* each worker's position and locals in process_all_pdfs
    faults,     \* external failures injected so far
    chat,       \* one chat request: its input, position, calls and output
    auto,       \* awakened/auto-index.py: EbookProcessor and what it writes
    indexing,   \* auto-indexing.py: process_files and what it writes
    chunker,    \* one call of a chunker: its text, its limit and its chunks
    upload,     \* one call of batch_upload_vectors: its arguments and its writes
    compressor, \* awakened/compress_ebook.py, s3_ebook_compress.py: one file
    assistants, \* id_and_tag/id.py: process_files and what it creates
    verifier    \* BatchPDFProcessor verify_connection / verify_pinecone

vars == <<index, completed, table, worker, faults, chat, auto, indexing, chunker,
          upload, compressor, assistants, verifier>>
ingestVars == <<index, completed, table, worker>>

NoItem == [embedding_status |-> "none", processing_status |-> "none",
           storage_status |-> "none"]

Idle == [pc |-> "idle", file |-> "none", chunks |-> <<>>,
         embeddings |-> <<>>, vectors |-> <<>>, i |-> 0, retry_count |-> 0,
         successful_uploads |-> 0, status |-> "none",
         log |-> <<>>, doneAtStart |-> {}]

NoChat == [pc |-> "none"]

NoAuto == [pc |-> "none"]

NoIndexing == [pc |-> "none"]

NoChunker == [pc |-> "none"]

NoUpload == [pc |-> "none"]

NoCompressor == [pc |-> "none"]

NoAssistants == [pc |-> "none"]

NoVerifier == [pc |-> "none"]

Init ==
    /\ index = {}
    /\ completed = {}
    /\ table = [f \in FileIds |-> NoItem]
    /\ worker = [w \in Workers |-> Idle]
    /\ faults = 0
    /\ chat = NoChat
    /\ auto = NoAuto
    /\ indexing = NoIndexing
    /\ chunker = NoChunker
    /\ upload = NoUpload
    /\ compressor = NoCompressor
    /\ assistants = NoAssistants
    /\ verifier = NoVerifier

CanFault == faults < MaxFaults

(***************************************************************************)
(* StorageProcessor                                                        *)
(***************************************************************************)
\* head_object on the completed key, then the item's embedding_status.
check_if_processed(file_key) ==
    \/ file_key \in completed
    \/ table[generate_file_id(file_key)].embedding_status = "completed"

list_pending_files == SelectSeq(Listing, LAMBDA k : ~check_if_processed(k))

(***************************************************************************)
(* BatchPDFProcessor                                                       *)
(***************************************************************************)
\* Mutant: the loop stops one element before the end of the list.
LoopDoneEarly(i, n) == i + 1 >= n

\* The loop of batch_create_embeddings or of batch_upsert is over when the
\* offset has passed the list.
LoopDone(i, n) == i >= n

\* Mutant: the retries count as exhausted one failure early.
RetriesExhaustedEarly(retry_count) == retry_count + 1 = max_retries

\* Mutant: the comparison never holds, and the loop falls through.
RetriesExhaustedNever(retry_count) == retry_count > max_retries

\* Mutant: the raise comes one failure late, after the loop has gone on.
RetriesExhaustedLate(retry_count) == retry_count = max_retries + 1

\* "if retry_count == max_retries: raise", after retry_count += 1.
RetriesExhausted(retry_count) == retry_count = max_retries

\* Mutant: the invalid embeddings are dropped first, and the vectors are
\* numbered as they are kept.
VectorsFromRenumbered(file_id, embeddings, chunks) ==
    LET kept == SelectSeq([k \in 1..Min(Len(embeddings), Len(chunks)) |-> k],
                          LAMBDA k : embeddings[k].dim = dimension)
    IN [j \in DOMAIN kept |->
           [id |-> <<file_id, j - 1>>,
            values |-> embeddings[kept[j]],
            metadata |-> [text |-> Truncate(chunks[kept[j]].text, METADATA_TEXT_LIMIT),
                          file_id |-> file_id,
                          chunk_id |-> j - 1]]]

\* The vectors batch_upload_vectors builds from enumerate(zip(embeddings, chunks)):
\* the pairs whose embedding has the index's dimension, in order, each under
\* the id of its own position idx.
VectorsFrom(file_id, embeddings, chunks) ==
    LET pairs == [k \in 1..Min(Len(embeddings), Len(chunks)) |->
                     [id |-> <<file_id, k - 1>>,
                      values |-> embeddings[k],
                      metadata |-> [text |-> Truncate(chunks[k].text, METADATA_TEXT_LIMIT),
                                    file_id |-> file_id,
                                    chunk_id |-> k - 1]]]
    IN SelectSeq(pairs, LAMBDA v : v.values.dim = dimension)

\* index.upsert(vectors=batch) on the namespace, a set of vectors with one
\* vector per id: overwrite on conflict, the last of a repeated id staying.
Upsert(ix, batch) ==
    LET ids == {batch[k].id : k \in DOMAIN batch}
        last == {k \in DOMAIN batch :
                    \A m \in DOMAIN batch : m > k => batch[m].id # batch[k].id}
    IN {v \in ix : v.id \notin ids} \cup {batch[k] : k \in last}

\* process_all_pdfs up to the choice of the file: the listing, and the first
\* pending file or the early return.
process_all_pdfs(w) ==
    /\ UNCHANGED <<chat, auto, indexing, chunker, upload, compressor, assistants, verifier>>
    /\ worker[w].pc = "idle"
    /\ LET pending_files == list_pending_files
           me == [Idle EXCEPT !.doneAtStart = {k \in FileKeys :
                       table[generate_file_id(k)].processing_status = "completed"}]
       IN worker' = [worker EXCEPT ![w] =
              IF pending_files = <<>> THEN [me EXCEPT !.pc = "exit"]
              ELSE [me EXCEPT !.pc = "download", !.file = pending_files[1]]]
    /\ UNCHANGED <<index, completed, table, faults>>

\* process_single_pdf: download, the pages and their chunks.
process_single_pdf(w) ==
    /\ UNCHANGED <<chat, auto, indexing, chunker, upload, compressor, assistants, verifier>>
    /\ worker[w].pc = "download"
    /\ \/ /\ LET n == NChunks(worker[w].file)
             IN worker' = [worker EXCEPT ![w].chunks = Chunks(worker[w].file),
                    ![w].embeddings = <<>>, ![w].i = 0, ![w].retry_count = 0,
                    ![w].pc = IF LoopDone(0, n) THEN "upload" ELSE "embed"]
          /\ UNCHANGED faults
       \/ /\ CanFault
          /\ faults' = faults + 1
          /\ worker' = [worker EXCEPT ![w].status = "error", ![w].pc = "record"]
    /\ UNCHANGED <<index, completed, table>>

\* The response of embeddings.create for a batch: one embedding per text, in
\* the order of the texts; a malformed one is empty.
EmbeddingResponse(batch, malformed) ==
    [k \in DOMAIN batch |->
        [of |-> batch[k], dim |-> IF k \in malformed THEN 0 ELSE dimension]]

\* One attempt of batch_create_embeddings on the batch at offset i: the body
\* of "while retry_count < max_retries". A failed attempt raises when the
\* retries are exhausted, else the loop goes on while its condition holds.
batch_create_embeddings(w) ==
    /\ UNCHANGED <<chat, auto, indexing, chunker, upload, compressor, assistants, verifier>>
    /\ worker[w].pc = "embed"
    /\ LET me == worker[w]
           batch == Slice(me.chunks, me.i, EMBEDDING_BATCH_SIZE)
           entry(ok) == [op |-> "embed", batch |-> me.i, ok |-> ok]
       IN \/ \E malformed \in {{}, {1}} :
                /\ malformed # {} => CanFault
                /\ faults' = IF malformed # {} THEN faults + 1 ELSE faults
                /\ worker' = [worker EXCEPT ![w] =
                       [me EXCEPT !.embeddings = me.embeddings \o
                                      EmbeddingResponse(batch, malformed),
                                  !.i = me.i + EMBEDDING_BATCH_SIZE,
                                  !.retry_count = 0,
                                  !.log = Append(me.log, entry(TRUE)),
                                  !.pc = IF LoopDone(me.i + EMBEDDING_BATCH_SIZE,
                                                     Len(me.chunks))
                                         THEN "upload" ELSE "embed"]]
          \/ /\ CanFault
             /\ faults' = faults + 1
             /\ worker' = [worker EXCEPT ![w] =
                    IF RetriesExhausted(me.retry_count + 1)
                    THEN [me EXCEPT !.retry_count = me.retry_count + 1,
                                    !.log = Append(me.log, entry(FALSE)),
                                    !.status = "error", !.pc = "record"]
                    ELSE IF me.retry_count + 1 < max_retries
                    THEN [me EXCEPT !.retry_count = me.retry_count + 1,
                                    !.log = Append(me.log, entry(FALSE))]
                    ELSE [me EXCEPT !.i = me.i + EMBEDDING_BATCH_SIZE,
                                    !.retry_count = 0,
                                    !.log = Append(me.log, entry(FALSE)),
                                    !.pc = IF LoopDone(me.i + EMBEDDING_BATCH_SIZE,
                                                       Len(me.chunks))
                                           THEN "upload" ELSE "embed"]]
    /\ UNCHANGED <<index, completed, table>>

\* batch_upload_vectors: the vectors of the valid embeddings, handed to
\* batch_upsert, which returns True at once for an empty list.
batch_upload_vectors(w) ==
    /\ UNCHANGED <<chat, auto, indexing, chunker, upload, compressor, assistants, verifier>>
    /\ worker[w].pc = "upload"
    /\ LET me == worker[w]
           vectors == VectorsFrom(generate_file_id(me.file), me.embeddings, me.chunks)
       IN worker' = [worker EXCEPT ![w] =
              [me EXCEPT !.vectors = vectors, !.i = 0, !.retry_count = 0,
                         !.successful_uploads = 0,
                         !.pc = IF LoopDone(0, Len(vectors)) THEN "move" ELSE "upsert"]]
    /\ UNCHANGED <<index, completed, table, faults>>

\* One attempt of batch_upsert on the batch at offset i. A raise is caught by
\* batch_upsert, which returns False; so does a count of uploads other than
\* the count of vectors; process_single_pdf then raises and returns 'error'.
batch_upsert(w) ==
    /\ UNCHANGED <<chat, auto, indexing, chunker, upload, compressor, assistants, verifier>>
    /\ worker[w].pc = "upsert"
    /\ LET me == worker[w]
           batch == Slice(me.vectors, me.i, batch_size)
           entry(ok) == [op |-> "upsert", batch |-> me.i, ok |-> ok]
           total_vectors == Len(me.vectors)
       IN \/ /\ index' = Upsert(index, batch)
             /\ worker' = [worker EXCEPT ![w] =
                    [me EXCEPT !.successful_uploads = me.successful_uploads + Len(batch),
                               !.i = me.i + batch_size,
                               !.retry_count = 0,
                               !.log = Append(me.log, entry(TRUE)),
                               !.pc = IF ~LoopDone(me.i + batch_size, total_vectors)
                                      THEN "upsert"
                                      ELSE IF me.successful_uploads + Len(batch) = total_vectors
                                           THEN "move" ELSE "record",
                               !.status = IF LoopDone(me.i + batch_size, total_vectors)
                                             /\ me.successful_uploads + Len(batch) # total_vectors
                                          THEN "error" ELSE me.status]]
             /\ UNCHANGED faults
          \/ /\ CanFault
             /\ faults' = faults + 1
             /\ worker' = [worker EXCEPT ![w] =
                    IF RetriesExhausted(me.retry_count + 1)
                       \/ (me.retry_count + 1 >= max_retries
                           /\ LoopDone(me.i + batch_size, total_vectors))
                    THEN [me EXCEPT !.retry_count = me.retry_count + 1,
                                    !.log = Append(me.log, entry(FALSE)),
                                    !.status = "error", !.pc = "record"]
                    ELSE IF me.retry_count + 1 < max_retries
                    THEN [me EXCEPT !.retry_count = me.retry_count + 1,
                                    !.log = Append(me.log, entry(FALSE))]
                    ELSE [me EXCEPT !.i = me.i + batch_size,
                                    !.retry_count = 0,
                                    !.log = Append(me.log, entry(FALSE))]]
             /\ UNCHANGED index
    /\ UNCHANGED <<completed, table>>

\* move_to_completed, whose result process_single_pdf does not read: the copy,
\* then the item's storage_status; either may raise, and False is returned.
move_to_completed(w) ==
    /\ UNCHANGED <<chat, auto, indexing, chunker, upload, compressor, assistants, verifier>>
    /\ worker[w].pc = "move"
    /\ LET file_id == generate_file_id(worker[w].file)
       IN \/ /\ completed' = completed \cup {worker[w].file}
             /\ table' = [table EXCEPT ![file_id].storage_status = "completed"]
             /\ UNCHANGED faults
          \/ /\ CanFault
             /\ faults' = faults + 1
             /\ completed' = completed \cup {worker[w].file}
             /\ UNCHANGED table
          \/ /\ CanFault
             /\ faults' = faults + 1
             /\ UNCHANGED <<completed, table>>
    /\ worker' = [worker EXCEPT ![w].status = "success", ![w].pc = "record"]
    /\ UNCHANGED <<index>>

\* process_all_pdfs after process_single_pdf returned: the result is recorded
\* with update_processing_status.
update_processing_status(w) ==
    /\ UNCHANGED <<chat, auto, indexing, chunker, upload, compressor, assistants, verifier>>
    /\ worker[w].pc = "record"
    /\ LET file_id == generate_file_id(worker[w].file)
           status == IF worker[w].status = "success" THEN "completed" ELSE "failed"
       IN /\ table' = [table EXCEPT ![file_id].processing_status = status]
          /\ worker' = [worker EXCEPT ![w] = [Idle EXCEPT !.pc = "exit"]]
    /\ UNCHANGED <<index, completed, faults>>

Next ==
    \E w \in Workers :
        \/ process_all_pdfs(w)
        \/ process_single_pdf(w)
        \/ batch_create_embeddings(w)
        \/ batch_upload_vectors(w)
        \/ batch_upsert(w)
        \/ move_to_completed(w)
        \/ update_processing_status(w)

Spec == Init /\ [][Next]_vars

(***************************************************************************)
(* Claims on the batch processor (Spec).                                   *)
(***************************************************************************)
FileId(w) == generate_file_id(worker[w].file)

\* The outcomes, in order, of the attempts worker w made at operation op on
\* the batch at offset b.
Outcomes(w, op, b) ==
    LET tries == SelectSeq(worker[w].log, LAMBDA e : e.op = op /\ e.batch = b)
    IN [k \in DOMAIN tries |-> tries[k].ok]

Offsets(w, op) == {worker[w].log[k].batch : k \in {k \in DOMAIN worker[w].log :
                                                      worker[w].log[k].op = op}}

IndexIds == {v.id : v \in index}

\* The positions in worker w's vectors of the upsert batch at offset b.
BatchPositions(w, b) == {k \in DOMAIN worker[w].vectors : k > b /\ k <= b + batch_size}

\* Successful upsert calls of worker w that carried its k-th vector.
Writes(w, k) ==
    Cardinality({n \in DOMAIN worker[w].log :
        /\ worker[w].log[n].op = "upsert"
        /\ worker[w].log[n].ok
        /\ k \in BatchPositions(w, worker[w].log[n].batch)})

Exhausted(w, op) == \E b \in Offsets(w, op) : Outcomes(w, op, b) = <<FALSE, FALSE, FALSE>>

\* C2: once a document's ingestion finished with success and was recorded as
\* completed, no later run issues an embedding call for that document.
C2_NoEmbeddingAfterCompleted ==
    \A w \in Workers :
        worker[w].file \in worker[w].doneAtStart =>
            \A k \in DOMAIN worker[w].log : worker[w].log[k].op # "embed"

\* C4: of two workers running at the same time, at most one embeds and
\* upserts a given document.
C4_AtMostOneWorkerPerDocument ==
    \A w1, w2 \in Workers :
        LET Won(w) == /\ \E k \in DOMAIN worker[w].log :
                            worker[w].log[k].op = "embed" /\ worker[w].log[k].ok
                      /\ \E k \in DOMAIN worker[w].log :
                            worker[w].log[k].op = "upsert" /\ worker[w].log[k].ok
        IN (w1 # w2 /\ worker[w1].file = worker[w2].file) => ~(Won(w1) /\ Won(w2))

\* C5: a batch whose embedding or upsert call fails twice and then succeeds
\* ends with success after exactly 3 attempts: after the two failures the
\* worker is still retrying that batch; after the third attempt the batch is
\* done, the loop has moved past it, its embeddings were appended once or its
\* vectors are in the index, each written by exactly one successful call; and
\* with no other failure the document's result is not an error.
C5_FailTwiceThenSucceed ==
    \A w \in Workers : \A op \in {"embed", "upsert"} : \A b \in Offsets(w, op) :
        LET me == worker[w]
            out == Outcomes(w, op, b)
        IN /\ out = <<FALSE, FALSE>> =>
                  me.pc = op /\ me.i = b /\ me.retry_count = 2 /\ me.status # "error"
           /\ out = <<FALSE, FALSE, TRUE>> =>
                  /\ ~(me.pc = op /\ me.i = b)
                  /\ op = "embed" =>
                        /\ Len(me.embeddings) >= Min(b + EMBEDDING_BATCH_SIZE, Len(me.chunks))
                        /\ \A k \in DOMAIN me.embeddings : me.embeddings[k].of = me.chunks[k]
                  /\ op = "upsert" =>
                        \A k \in BatchPositions(w, b) :
                            me.vectors[k].id \in IndexIds /\ Writes(w, k) = 1
                  /\ (~Exhausted(w, "embed") /\ ~Exhausted(w, "upsert")) => me.status # "error"

\* C5 witness: an upsert batch that failed twice and then succeeded, in a
\* document on its way to success.
C5_Witness ==
    \E w \in Workers : \E b \in Offsets(w, "upsert") :
        /\ Outcomes(w, "upsert", b) = <<FALSE, FALSE, TRUE>>
        /\ worker[w].status = "success"

C11_RunAttemptsEveryPending ==
    \A w \in Workers :
        worker[w].pc = "exit" =>
            \A file_key \in FileKeys :
                \/ check_if_processed(file_key)
                \/ table[generate_file_id(file_key)].processing_status
                       \in {"completed", "failed"}

\* The chunk of ordinal idx of the document with this file id.
ChunkOf(file_id, idx) ==
    LET file_key == CHOOSE k \in FileKeys : generate_file_id(k) = file_id
    IN Chunks(file_key)[idx + 1]

\* batch_create_embeddings returned to worker w: the embeddings are in hand
\* and the vectors are being built or written.
Embedded(w) == worker[w].pc \in {"upload", "upsert", "move"}

\* The embeddings batch_create_embeddings returned are one per chunk, the
\* i-th the one the service returned for chunk i.
EmbeddingsInOrder(w) ==
    Embedded(w) =>
        /\ Len(worker[w].embeddings) = Len(worker[w].chunks)
        /\ \A k \in DOMAIN worker[w].embeddings :
               worker[w].embeddings[k].of = worker[w].chunks[k]

\* C14 as stated: batch_create_embeddings returns one vector per chunk, the
\* i-th being the embedding of chunk i, and the vector in the index under the
\* id of ordinal i carries the text of chunk i in its metadata.
C14_VectorsMatchChunks ==
    /\ \A w \in Workers : EmbeddingsInOrder(w)
    /\ \A v \in index :
           /\ v.values.of = ChunkOf(v.id[1], v.id[2])
           /\ v.metadata.text = ChunkOf(v.id[1], v.id[2]).text

\* C14 amended: batch_create_embeddings returns one vector per chunk, the
\* i-th being the embedding of chunk i, and the vector in the index under the
\* id of ordinal i carries in its metadata the text of chunk i cut to its
\* first 3000 characters.
C14_VectorsMatchChunksTruncated ==
    /\ \A w \in Workers : EmbeddingsInOrder(w)
    /\ \A v \in index :
           /\ v.values.of = ChunkOf(v.id[1], v.id[2])
           /\ v.metadata.text = Truncate(ChunkOf(v.id[1], v.id[2]).text, METADATA_TEXT_LIMIT)

\* C14 witness: the embeddings of the small document came back in order, and
\* the vector of its first chunk, one sentence of more than 3000 characters,
\* is in the index with the text cut.
C14_Witness ==
    \E w \in Workers : \E v \in index :
        /\ worker[w].pc = "move"
        /\ worker[w].file = "b.pdf"
        /\ v.id = <<generate_file_id("b.pdf"), 0>>
        /\ v.metadata.text.length < worker[w].chunks[1].text.length

\* C15: a document recorded as successfully indexed has exactly one vector in
\* the index for each of its chunks.
C15_OneVectorPerChunk ==
    \A file_key \in FileKeys :
        table[generate_file_id(file_key)].processing_status = "completed" =>
            /\ \A idx \in 0..(NChunks(file_key) - 1) :
                   <<generate_file_id(file_key), idx>> \in IndexIds
            /\ Cardinality({v \in index : v.id[1] = generate_file_id(file_key)})
                   = NChunks(file_key)

\* C17: the one status an ingestion attempt records for its document is
\* terminal; it is completed exactly when every step succeeded, the move to
\* the completed location included, and failed otherwise; and a document
\* recorded as completed is not set back to failed.
C17_OneTerminalStatus ==
    [][\A w \in Workers :
          (worker[w].pc = "record" /\ worker'[w].pc = "exit") =>
              LET file_id == FileId(w)
                  old == table[file_id].processing_status
                  new == table'[file_id].processing_status
                  moved == /\ worker[w].file \in completed
                           /\ table[file_id].storage_status = "completed"
              IN /\ new \in {"completed", "failed"}
                 /\ new = "completed" <=> (worker[w].status = "success" /\ moved)
                 /\ old = "completed" => new = "completed"]_vars

\* C23: each successful embedding call takes the next chunks of the list, at
\* most EMBEDDING_BATCH_SIZE of them and fewer only at the end of the list,
\* and returns their embeddings in the order of the chunks; each successful
\* upsert writes the next vectors of the list, at most batch_size of them and
\* fewer only at the end; and a loop that ends normally has covered its
\* whole list. So the batches are consecutive, in input order, and every
\* element is in exactly one of them.
C23_ConsecutiveBatches ==
    [][\A w \in Workers :
          LET me == worker[w]
              after == worker'[w]
              e0 == Len(me.embeddings)
              e1 == Len(after.embeddings)
              u0 == me.successful_uploads
              u1 == after.successful_uploads
          IN /\ (me.pc = "embed" /\ e1 > e0) =>
                   /\ e1 - e0 <= EMBEDDING_BATCH_SIZE
                   /\ e1 - e0 = EMBEDDING_BATCH_SIZE \/ e1 = Len(me.chunks)
                   /\ \A k \in 1..e0 : after.embeddings[k] = me.embeddings[k]
                   /\ \A k \in (e0 + 1)..e1 : after.embeddings[k].of = me.chunks[k]
             /\ (me.pc = "embed" /\ after.pc = "upload") => e1 = Len(me.chunks)
             /\ (me.pc = "upsert" /\ u1 > u0) =>
                   /\ u1 - u0 <= batch_size
                   /\ u1 - u0 = batch_size \/ u1 = Len(me.vectors)
                   /\ \A k \in (u0 + 1)..u1 : me.vectors[k] \in index'
                   /\ \A v \in index' \ index :
                          \E k \in (u0 + 1)..u1 : v = me.vectors[k]
             /\ (me.pc = "upsert" /\ after.pc = "move") => u1 = Len(me.vectors)]_vars

\* A document of more than two embedding batches and more than one upsert
\* batch, all embedded and all written.
C23_Witness ==
    \E w \in Workers :
        /\ worker[w].pc = "move"
        /\ Len(worker[w].chunks) > 2 * EMBEDDING_BATCH_SIZE
        /\ Len(worker[w].vectors) > batch_size
        /\ Len(worker[w].embeddings) = Len(worker[w].chunks)
        /\ worker[w].successful_uploads = Len(worker[w].vectors)

\* C24: an ingestion attempt in which an embedding batch failed on all its
\* attempts has built no vector and made no upsert call, ends as an error, and
\* none of its steps, the exhausting one included, changes the index or the
\* completed location.
C24_EmbeddingExhaustedWritesNothing ==
    /\ [](\A w \in Workers :
            Exhausted(w, "embed") =>
                /\ worker[w].pc = "record"
                /\ worker[w].status = "error"
                /\ worker[w].vectors = <<>>
                /\ worker[w].successful_uploads = 0
                /\ Offsets(w, "upsert") = {})
    /\ [][\A w \in Workers :
            (worker'[w] # worker[w] /\ (Exhausted(w, "embed") \/ Exhausted(w, "embed")')) =>
                /\ index' = index
                /\ completed' = completed
                /\ worker'[w].pc = "exit" =>
                       table'[FileId(w)].storage_status = table[FileId(w)].storage_status]_vars

\* The third embedding batch of the large document is exhausted after the
\* first two were embedded.
C24_Witness ==
    \E w \in Workers :
        /\ Exhausted(w, "embed")
        /\ Len(worker[w].embeddings) = 2 * EMBEDDING_BATCH_SIZE
        /\ Len(worker[w].chunks) > 2 * EMBEDDING_BATCH_SIZE

\* C25: a run records a document as completed, after its success report,
\* only if the document's source is at the completed location.
C25_SuccessOnlyIfMoved ==
    [][\A w \in Workers :
          (/\ worker[w].pc = "record"
           /\ worker[w].status = "success"
           /\ worker'[w].pc = "exit"
           /\ table'[FileId(w)].processing_status = "completed") =>
              worker[w].file \in completed]_vars

\* C21: a document whose last recorded status is failed is listed as pending
\* by a run that starts now, and a run that takes a document starts it at the
\* download, with none of the chunks, embeddings or vectors of an earlier
\* attempt.
C21_FailedIsProcessedAgain ==
    /\ [](\A file_key \in FileKeys :
            table[generate_file_id(file_key)].processing_status = "failed" =>
                file_key \in Range(list_pending_files))
    /\ [][\A w \in Workers :
            (worker[w].pc = "idle" /\ worker'[w].pc # "idle" /\ worker'[w].pc # "exit") =>
                /\ worker'[w].pc = "download"
                /\ worker'[w].chunks = <<>>
                /\ worker'[w].embeddings = <<>>
                /\ worker'[w].vectors = <<>>]_vars

(***************************************************************************)
(* The conversational retrieval engine: ai/langchain.py get_response,      *)
(* streamed by routers/langchain.py sse_request, and get_response_chat,    *)
(* called by routers/audio.py route (SpecChat).                            *)
(***************************************************************************)
MessageTypes == {"user", "bot", "other"}

\* The text of the k-th message of a request: each message has its own.
TurnText(k) == <<"text", k>>

\* The requests: up to MaxTurns messages of any types.
Requests ==
    UNION {[1..n -> MessageTypes] : n \in 0..MaxTurns}

MessagesOf(types) == [k \in DOMAIN types |-> [type |-> types[k], text |-> TurnText(k)]]

\* What the LLM may answer to the query-transform prompt: any text.
LLMQueries == {<<"q">>, <<"q", "LF", "q">>}

\* The deltas the LLM streams: text, with newlines and tabs.
Tokens == {<<"o", "k">>, <<"a", "LF", "TAB">>}

\* Mutant: every message of the request is kept in the history.
HistoryOfAll(messages) == messages

\* history: the 'user' and 'bot' messages, in order.
History(messages) == SelectSeq(messages, LAMBDA m : m.type \in {"user", "bot"})

\* Mutant: any non-empty history takes the branch without the LLM.
SingleTurnNonEmpty(messages) == Len(messages) >= 1

\* The condition of the RunnableBranch: lambda x: len(x.get("messages", [])) == 1.
SingleTurn(messages) == Len(messages) = 1

\* StrOutputParser: the text of the LLM's message.
StrOutputParser(message) == message

\* chunk.replace("\n", "\\n").replace("\t", "\\t")
RECURSIVE Escaped(_)
Escaped(text) ==
    IF text = <<>> THEN <<>>
    ELSE (CASE Head(text) = "LF" -> <<"\\", "n">>
            [] Head(text) = "TAB" -> <<"\\", "t">>
            [] OTHER -> <<Head(text)>>) \o Escaped(Tail(text))

\* f'data: {processed_chunk}\n\n': one server-sent event.
Event(chunk) == [field |-> "data", value |-> Escaped(chunk)]

NewChat(messages, streaming, fn) ==
    [pc |-> "called", fn |-> fn, streaming |-> streaming, messages |-> messages,
     history |-> <<>>, rewritten |-> <<>>, query |-> <<>>, retrieved |-> <<>>,
     reformulations |-> 0, retrievals |-> 0, generations |-> 0,
     out |-> <<>>, yielded |-> 0, cancelled |-> FALSE,
     failed |-> FALSE, result |-> "none", answer_text |-> "none"]

\* sse_request streams get_response(messages, defaultInput, True); route calls
\* get_response_chat(messages_list, False) with the transcription appended as
\* a 'user' message; and get_response may be called with streaming False, by
\* a caller that iterates what it returns.
InitChat ==
    /\ index = {}
    /\ completed = {}
    /\ table = [f \in FileIds |-> NoItem]
    /\ worker = [w \in Workers |-> Idle]
    /\ faults = 0
    /\ auto = NoAuto
    /\ indexing = NoIndexing
    /\ chunker = NoChunker
    /\ upload = NoUpload
    /\ compressor = NoCompressor
    /\ assistants = NoAssistants
    /\ verifier = NoVerifier
    /\ \E types \in Requests :
        \/ chat = NewChat(MessagesOf(types), TRUE, "get_response")
        \/ chat = NewChat(MessagesOf(types), FALSE, "get_response")
        \/ chat = NewChat(MessagesOf(Append(types, "user")), FALSE, "get_response_chat")

\* Mutant: the body of the generator runs whether or not the consumer asks
\* for the next event.
PullsAlways == TRUE

\* StreamingResponse iterates the generator get_response returned: the body
\* runs only when the consumer asks for the next event, which it stops doing
\* once the client is gone. get_response_chat is a plain call.
Pulls == chat.streaming => ~chat.cancelled

Running == chat.pc \in {"called", "transform", "retrieve", "generate", "stream"}

\* An exception in the chain. get_response has no handler: it leaves the
\* generator, and the stream stops. get_response_chat returns the exception.
Raise(c) ==
    IF c.fn = "get_response"
    THEN [c EXCEPT !.failed = TRUE, !.pc = "raised"]
    ELSE [c EXCEPT !.failed = TRUE, !.result = "error", !.pc = "returned"]

\* The history is built from the messages.
BuildHistory ==
    /\ chat.pc = "called"
    /\ Pulls
    /\ chat' = [chat EXCEPT !.history = History(chat.messages), !.pc = "transform"]
    /\ UNCHANGED <<ingestVars, faults, auto, indexing, chunker, upload, compressor, assistants, verifier>>

\* query_transforming_retriever_chain up to the retriever: the last message's
\* content, or the LLM's answer to the query-transform prompt.
QueryTransform ==
    /\ chat.pc = "transform"
    /\ Pulls
    /\ IF SingleTurn(chat.history)
       THEN chat' = [chat EXCEPT !.query = chat.history[Len(chat.history)].text,
                                 !.pc = "retrieve"]
       ELSE \/ \E text \in LLMQueries :
                  chat' = [chat EXCEPT !.reformulations = chat.reformulations + 1,
                                       !.rewritten = text,
                                       !.query = StrOutputParser(text),
                                       !.pc = "retrieve"]
            \/ chat' = Raise([chat EXCEPT !.reformulations = chat.reformulations + 1])
    /\ UNCHANGED <<ingestVars, faults, auto, indexing, chunker, upload, compressor, assistants, verifier>>

\* The retriever: one similarity search with the query.
Retrieve ==
    /\ chat.pc = "retrieve"
    /\ Pulls
    /\ LET c == [chat EXCEPT !.retrievals = chat.retrievals + 1, !.retrieved = chat.query]
       IN \/ chat' = [c EXCEPT !.pc = "generate"]
          \/ chat' = Raise(c)
    /\ UNCHANGED <<ingestVars, faults, auto, indexing, chunker, upload, compressor, assistants, verifier>>

\* document_chain: the LLM call that answers, streamed or whole. After
\* invoke, get_response_chat returns stream['answer']. get_response has a
\* yield in its body, so it is a generator whatever streaming is: its
\* "return stream" ends the iteration with no item, and the caller is handed
\* nothing.
Generate ==
    /\ chat.pc = "generate"
    /\ Pulls
    /\ LET c == [chat EXCEPT !.generations = chat.generations + 1]
       IN \/ chat' = IF c.streaming THEN [c EXCEPT !.pc = "stream"]
                     ELSE IF c.fn = "get_response" THEN [c EXCEPT !.pc = "closed"]
                     ELSE [c EXCEPT !.result = "answer", !.pc = "returned"]
          \/ chat' = Raise(c)
    /\ UNCHANGED <<ingestVars, faults, auto, indexing, chunker, upload, compressor, assistants, verifier>>

\* The loop over the stream: one 'answer' chunk is yielded as an event.
Delta ==
    /\ chat.pc = "stream"
    /\ Pulls
    /\ chat.yielded < MaxDeltas
    /\ \E chunk \in Tokens :
          chat' = [chat EXCEPT !.out = Append(chat.out, Event(chunk)),
                               !.yielded = chat.yielded + 1]
    /\ UNCHANGED <<ingestVars, faults, auto, indexing, chunker, upload, compressor, assistants, verifier>>

\* The stream of the LLM ends: the generator returns, and the response with it.
EndOfStream ==
    /\ chat.pc = "stream"
    /\ Pulls
    /\ chat' = [chat EXCEPT !.pc = "closed"]
    /\ UNCHANGED <<ingestVars, faults, auto, indexing, chunker, upload, compressor, assistants, verifier>>

\* The stream of the LLM raises between two chunks.
StreamError ==
    /\ chat.pc = "stream"
    /\ Pulls
    /\ chat' = Raise(chat)
    /\ UNCHANGED <<ingestVars, faults, auto, indexing, chunker, upload, compressor, assistants, verifier>>

\* The client of the streamed response goes away.
Cancel ==
    /\ chat.streaming
    /\ Running
    /\ ~chat.cancelled
    /\ chat' = [chat EXCEPT !.cancelled = TRUE]
    /\ UNCHANGED <<ingestVars, faults, auto, indexing, chunker, upload, compressor, assistants, verifier>>

\* route: what get_response_chat returned is the text handed to the speech
\* synthesis and put in the response.
route ==
    /\ chat.pc = "returned"
    /\ chat' = [chat EXCEPT !.answer_text = chat.result, !.pc = "spoken"]
    /\ UNCHANGED <<ingestVars, faults, auto, indexing, chunker, upload, compressor, assistants, verifier>>

NextChat ==
    \/ BuildHistory
    \/ QueryTransform
    \/ Retrieve
    \/ Generate
    \/ Delta
    \/ EndOfStream
    \/ StreamError
    \/ Cancel
    \/ route

SpecChat == InitChat /\ [][NextChat]_vars

(***************************************************************************)
(* Claims on the conversational retrieval engine (SpecChat).               *)
(***************************************************************************)
\* C7: a history of exactly one turn makes no reformulation call and searches
\* with that turn's text; a history of more than one turn makes exactly one
\* reformulation call, before the search, and searches with what the LLM
\* answered, unchanged.
C7_ReformulationBranching ==
    LET turns == History(chat.messages)
        searched == chat.retrievals >= 1
        over == chat.pc \in {"closed", "returned", "spoken"} /\ ~chat.failed
    IN chat.pc \notin {"called", "none"} =>
        /\ Len(turns) = 1 =>
              /\ chat.reformulations = 0
              /\ searched => chat.retrieved = turns[1].text
        /\ Len(turns) > 1 =>
              /\ chat.reformulations <= 1
              /\ searched => chat.reformulations = 1 /\ chat.retrieved = chat.rewritten
              /\ over => chat.reformulations = 1 /\ chat.retrievals = 1

\* C7 witness: a history of three turns has been searched for.
C7_Witness ==
    /\ chat.pc = "generate"
    /\ Len(chat.history) = 3
    /\ chat.retrieved = <<"q", "LF", "q">>

\* C28: in get_response, once the query-transform step has run, no
\* reformulation call was issued if and only if exactly one message of the
\* request has type 'user' or 'bot'; otherwise exactly one was issued, also
\* when the request has no such message; and the history handed to the chain
\* and so to the LLM is the 'user' and 'bot' messages in their order, with no
\* message of another type.
C28_ReformulationIffNotSingle ==
    LET turns == {k \in DOMAIN chat.messages : chat.messages[k].type \in {"user", "bot"}}
        transformed == chat.query # <<>> \/ chat.reformulations > 0
    IN chat.fn = "get_response" =>
        /\ transformed =>
              /\ chat.reformulations = 0 <=> Cardinality(turns) = 1
              /\ chat.reformulations <= 1
              /\ Cardinality(turns) = 0 => chat.reformulations = 1
        /\ chat.pc \notin {"called", "cancelled"} =>
              /\ Len(chat.history) = Cardinality(turns)
              /\ \A k \in DOMAIN chat.history :
                    /\ chat.history[k].type \in {"user", "bot"}
                    /\ \E m \in turns :
                          /\ chat.messages[m] = chat.history[k]
                          /\ Cardinality({n \in turns : n <= m}) = k

\* A request whose only messages are of another type: nothing is in the
\* history, and one reformulation call was issued.
C28_Witness ==
    /\ chat.fn = "get_response"
    /\ chat.pc = "retrieve"
    /\ Len(chat.messages) >= 2
    /\ chat.history = <<>>
    /\ chat.reformulations = 1

C9_FailureIsExplicit ==
    chat.failed =>
        /\ (chat.fn = "get_response" /\ chat.streaming) =>
              chat.out # <<>> /\ chat.out[Len(chat.out)].field = "error"
        /\ chat.fn = "get_response_chat" =>
              chat.result # "error" /\ chat.answer_text # "error"

\* C10: a streamed answer that completes normally ends with a done marker,
\* after the last delta.
C10_DoneMarker ==
    (chat.fn = "get_response" /\ chat.streaming /\ chat.pc = "closed") =>
        /\ chat.out # <<>>
        /\ chat.out[Len(chat.out)].field = "done"
        /\ \A k \in 1..(Len(chat.out) - 1) : chat.out[k].field = "data"

\* C18: a call with streaming false that ends without error has handed its
\* caller one answer, made with one retrieval and one answering LLM call; a
\* call with streaming true hands its consumer answer deltas only.
C18_OneAnswerOrDeltas ==
    /\ (~chat.streaming /\ ~chat.failed /\ chat.pc \in {"closed", "returned", "spoken"}) =>
           /\ chat.result = "answer"
           /\ chat.retrievals = 1
           /\ chat.generations = 1
    /\ chat.streaming =>
           \A k \in DOMAIN chat.out : chat.out[k].field = "data"

(***************************************************************************)
(* awakened/auto-index.py: EbookProcessor (SpecAuto).                      *)
(***************************************************************************)
\* The keys under the uploads/ prefix, in the order S3 lists them, each the
\* sequence of its path components: three different documents.
Uploads == << <<"uploads", "a.pdf">>, <<"uploads", "b.pdf">>,
             <<"uploads", "old", "a.pdf">> >>

\* Path(file_key).name: the last component of the key.
PathName(file_key) == file_key[Len(file_key)]

\* The chunks chunk_text makes of the text of each upload.
UploadChunks(file_key) == IF file_key = <<"uploads", "a.pdf">> THEN SmallDoc ELSE 1

MAX_VECTORS_PER_BATCH == 100

\* f"{file_id}_chunk_{i}"
ChunkId(file_id, i) == <<file_id, "chunk", i>>

AutoStart ==
    [pc |-> "idle", runs |-> 0, cursor |-> 0, key |-> <<>>, file |-> "none",
     embeddings |-> <<>>, i |-> 0, processed_files |-> 0, failed_files |-> 0,
     index |-> {}, table |-> {}, indexed |-> {}, unconfirmed |-> {}]

InitAuto ==
    /\ index = {}
    /\ completed = {}
    /\ table = [f \in FileIds |-> NoItem]
    /\ worker = [w \in Workers |-> Idle]
    /\ faults = 0
    /\ chat = NoChat
    /\ indexing = NoIndexing
    /\ chunker = NoChunker
    /\ upload = NoUpload
    /\ compressor = NoCompressor
    /\ assistants = NoAssistants
    /\ verifier = NoVerifier
    /\ auto = AutoStart

\* The loop of process_all_files goes to its next object, or the run is over.
NextUpload(a) ==
    IF a.cursor < Len(Uploads)
    THEN [a EXCEPT !.cursor = a.cursor + 1, !.key = Uploads[a.cursor + 1],
                   !.file = PathName(Uploads[a.cursor + 1]),
                   !.embeddings = <<>>, !.i = 0, !.pc = "download"]
    ELSE [a EXCEPT !.cursor = 0, !.key = <<>>, !.file = "none",
                   !.embeddings = <<>>, !.i = 0, !.pc = "idle"]

\* process_file returned True or False: the counters, and the next object.
Returned(a, success) ==
    NextUpload(IF success
               THEN [a EXCEPT !.processed_files = a.processed_files + 1]
               ELSE [a EXCEPT !.failed_files = a.failed_files + 1])

\* main(): process_all_files lists the uploads.
process_all_files ==
    /\ auto.pc = "idle"
    /\ auto.runs < MaxInvocations
    /\ auto' = NextUpload([auto EXCEPT !.runs = auto.runs + 1, !.cursor = 0,
                                      !.processed_files = 0, !.failed_files = 0])
    /\ UNCHANGED <<ingestVars, faults, chat, indexing, chunker, upload, compressor, assistants, verifier>>

\* The download of the object; a raise ends the run in the handler of
\* process_all_files.
download_file ==
    /\ auto.pc = "download"
    /\ \/ /\ auto' = [auto EXCEPT !.pc = "process_file"]
          /\ UNCHANGED faults
       \/ /\ CanFault
          /\ faults' = faults + 1
          /\ auto' = [auto EXCEPT !.cursor = 0, !.key = <<>>, !.file = "none",
                                  !.pc = "idle"]
    /\ UNCHANGED <<ingestVars, chat, indexing, chunker, upload, compressor, assistants, verifier>>

\* process_file up to the embeddings: the item of the file in DynamoDB, then
\* the text of the PDF.
process_file ==
    /\ auto.pc = "process_file"
    /\ \/ /\ auto' = IF \E item \in auto.table : item.file_key = auto.file
                     THEN Returned(auto, FALSE)
                     ELSE [auto EXCEPT !.unconfirmed = auto.unconfirmed \ {auto.file},
                                       !.pc = "create_embeddings"]
          /\ UNCHANGED faults
       \/ /\ CanFault
          /\ faults' = faults + 1
          /\ auto' = Returned(auto, FALSE)
    /\ UNCHANGED <<ingestVars, chat, indexing, chunker, upload, compressor, assistants, verifier>>

\* create_embeddings: one call for the chunk i; a failed one is skipped. After
\* the last chunk, process_file returns False when there is no embedding.
create_embeddings ==
    /\ auto.pc = "create_embeddings"
    /\ LET i == auto.i
           last == i + 1 >= UploadChunks(auto.key)
           after(a) == IF ~last THEN [a EXCEPT !.i = i + 1]
                       ELSE IF a.embeddings = <<>> THEN Returned(a, FALSE)
                       ELSE [a EXCEPT !.i = 0, !.pc = "upload_embeddings"]
       IN \/ /\ auto' = after([auto EXCEPT !.embeddings =
                           Append(auto.embeddings,
                                  ChunkId(generate_file_id(auto.file), i))])
             /\ UNCHANGED faults
          \/ /\ CanFault
             /\ faults' = faults + 1
             /\ auto' = after(auto)
    /\ UNCHANGED <<ingestVars, chat, indexing, chunker, upload, compressor, assistants, verifier>>

\* upload_embeddings: the upsert of the batch at offset i, which overwrites
\* the vectors of the same ids; a raise is logged and the loop goes on. Each
\* vector of the index is kept with the key of the document it was made from.
upload_embeddings ==
    /\ auto.pc = "upload_embeddings"
    /\ LET batch == Slice(auto.embeddings, auto.i, MAX_VECTORS_PER_BATCH)
           after(a) == IF LoopDone(a.i + MAX_VECTORS_PER_BATCH, Len(a.embeddings))
                       THEN [a EXCEPT !.pc = "upload_file"]
                       ELSE [a EXCEPT !.i = a.i + MAX_VECTORS_PER_BATCH]
           written == {[id |-> id, source |-> auto.key] : id \in Range(batch)}
       IN \/ /\ auto' = after([auto EXCEPT !.index =
                           {v \in auto.index : v.id \notin Range(batch)} \cup written])
             /\ UNCHANGED faults
          \/ /\ CanFault
             /\ faults' = faults + 1
             /\ auto' = after([auto EXCEPT !.unconfirmed = auto.unconfirmed \cup {auto.file}])
    /\ UNCHANGED <<ingestVars, chat, indexing, chunker, upload, compressor, assistants, verifier>>

\* process_file: the file is uploaded to the indexed folder.
upload_file ==
    /\ auto.pc = "upload_file"
    /\ \/ /\ auto' = [auto EXCEPT !.indexed = auto.indexed \cup {auto.file},
                                  !.pc = "put_item"]
          /\ UNCHANGED faults
       \/ /\ CanFault
          /\ faults' = faults + 1
          /\ auto' = Returned(auto, FALSE)
    /\ UNCHANGED <<ingestVars, chat, indexing, chunker, upload, compressor, assistants, verifier>>

\* process_file: the item of the file, with status 'indexed'.
put_item ==
    /\ auto.pc = "put_item"
    /\ \/ /\ auto' = Returned([auto EXCEPT !.table = auto.table \cup
                         {[file_key |-> auto.file, status |-> "indexed",
                           total_chunks |-> Len(auto.embeddings)]}], TRUE)
          /\ UNCHANGED faults
       \/ /\ CanFault
          /\ faults' = faults + 1
          /\ auto' = Returned(auto, FALSE)
    /\ UNCHANGED <<ingestVars, chat, indexing, chunker, upload, compressor, assistants, verifier>>

NextAuto ==
    \/ process_all_files
    \/ download_file
    \/ process_file
    \/ create_embeddings
    \/ upload_embeddings
    \/ upload_file
    \/ put_item

SpecAuto == InitAuto /\ [][NextAuto]_vars

\* C3: a file is in the indexed location, and recorded as indexed, only when
\* every upsert batch of it was confirmed.
C3_MovedOnlyAfterUpserts ==
    \A file \in auto.indexed \cup {item.file_key : item \in auto.table} :
        file \notin auto.unconfirmed

\* C20: the vector ids of different source documents are disjoint: no step
\* of the ingestion of a document replaces, under its id, a vector made from
\* another document.
C20_DisjointVectorIds ==
    [][\A v \in auto.index :
          \A u \in auto'.index : u.id = v.id => u.source = v.source]_vars

\* C27: a run of process_all_files ends only after the last object it listed
\* was attempted, whatever failed on the objects before it.
C27_FailureIsConfined ==
    [][(auto.pc # "idle" /\ auto'.pc = "idle") => auto.cursor = Len(Uploads)]_vars

(***************************************************************************)
(* auto-indexing.py: process_files, and text_embedding of ai/langchain.py  *)
(* (SpecIndexing).                                                         *)
(***************************************************************************)
\* The file keys of the objects under the compressed/ prefix.
Compressed == <<"a.pdf", "b.pdf">>

\* The documents the splitter of text_embedding makes of the text of each.
TextChunks(file) == IF file = "a.pdf" THEN SmallDoc ELSE 1

IndexingStart ==
    [pc |-> "idle", runs |-> 0, cursor |-> 0, file |-> "none",
     index |-> {}, table |-> {}, uuids |-> 0,
     ingestions |-> [f \in {Compressed[k] : k \in DOMAIN Compressed} |-> <<>>]]

InitIndexing ==
    /\ index = {}
    /\ completed = {}
    /\ table = [f \in FileIds |-> NoItem]
    /\ worker = [w \in Workers |-> Idle]
    /\ faults = 0
    /\ chat = NoChat
    /\ auto = NoAuto
    /\ indexing = IndexingStart
    /\ chunker = NoChunker
    /\ upload = NoUpload
    /\ compressor = NoCompressor
    /\ assistants = NoAssistants
    /\ verifier = NoVerifier

\* The loop of process_files goes to its next object, or the script is over.
NextObject(x) ==
    IF x.cursor < Len(Compressed)
    THEN [x EXCEPT !.cursor = x.cursor + 1, !.file = Compressed[x.cursor + 1],
                   !.pc = "get_item"]
    ELSE [x EXCEPT !.cursor = 0, !.file = "none", !.pc = "idle"]

\* An exception outside the try of the loop ends the script.
Crashed(x) == [x EXCEPT !.cursor = 0, !.file = "none", !.pc = "idle"]

\* The script runs: process_files lists the objects.
process_files ==
    /\ indexing.pc = "idle"
    /\ indexing.runs < MaxInvocations
    /\ indexing' = NextObject([indexing EXCEPT !.runs = indexing.runs + 1, !.cursor = 0])
    /\ UNCHANGED <<ingestVars, faults, chat, auto, chunker, upload, compressor, assistants, verifier>>

\* The file is skipped when DynamoDB has its item; else it is downloaded.
get_item ==
    /\ indexing.pc = "get_item"
    /\ \/ /\ indexing' = IF indexing.file \in indexing.table
                         THEN NextObject(indexing)
                         ELSE [indexing EXCEPT !.pc = "text_embedding"]
          /\ UNCHANGED faults
       \/ /\ CanFault
          /\ faults' = faults + 1
          /\ indexing' = Crashed(indexing)
    /\ UNCHANGED <<ingestVars, chat, auto, chunker, upload, compressor, assistants, verifier>>

\* The ids PineconeVectorStore.from_documents gives the n documents:
\* text_embedding passes none, and the store draws a new one for each.
StoreIds(used, n) == {<<"uuid", used + k>> : k \in 1..n}

\* text_embedding(title, data): the documents of the split text, each with
\* the title in its metadata, embedded and added to the namespace.
TextEmbedding(x, title) ==
    LET n == TextChunks(title)
        ids == StoreIds(x.uuids, n)
        added == {[id |-> <<"uuid", x.uuids + k>>, title |-> title, ordinal |-> k - 1] :
                     k \in 1..n}
        ix == {v \in x.index : v.id \notin ids} \cup added
    IN [x EXCEPT !.index = ix,
                 !.uuids = x.uuids + n,
                 !.ingestions[title] = Append(x.ingestions[title],
                     [ids |-> ids,
                      size |-> Cardinality({v \in ix : v.title = title})])]

\* The text of the file is extracted and embedded; a raise skips the file.
text_embedding ==
    /\ indexing.pc = "text_embedding"
    /\ \/ /\ indexing' = [TextEmbedding(indexing, indexing.file) EXCEPT !.pc = "thumbnail"]
          /\ UNCHANGED faults
       \/ /\ CanFault
          /\ faults' = faults + 1
          /\ indexing' = NextObject(indexing)
    /\ UNCHANGED <<ingestVars, chat, auto, chunker, upload, compressor, assistants, verifier>>

\* The first page is saved and uploaded as the thumbnail; a raise skips the
\* file, with its item not written.
thumbnail ==
    /\ indexing.pc = "thumbnail"
    /\ \/ /\ indexing' = [indexing EXCEPT !.pc = "put_item"]
          /\ UNCHANGED faults
       \/ /\ CanFault
          /\ faults' = faults + 1
          /\ indexing' = NextObject(indexing)
    /\ UNCHANGED <<ingestVars, chat, auto, chunker, upload, compressor, assistants, verifier>>

\* The item of the file is written, with status 'indexed'.
put_indexed_item ==
    /\ indexing.pc = "put_item"
    /\ \/ /\ indexing' = NextObject([indexing EXCEPT
                             !.table = indexing.table \cup {indexing.file}])
          /\ UNCHANGED faults
       \/ /\ CanFault
          /\ faults' = faults + 1
          /\ indexing' = Crashed(indexing)
    /\ UNCHANGED <<ingestVars, chat, auto, chunker, upload, compressor, assistants, verifier>>

NextIndexing ==
    \/ process_files
    \/ get_item
    \/ text_embedding
    \/ thumbnail
    \/ put_indexed_item

SpecIndexing == InitIndexing /\ [][NextIndexing]_vars

\* C1: two ingestions of the same document write the same set of vector ids,
\* and the document has as many vectors in the namespace after the second as
\* after the first.
C1_ReingestionIsIdempotent ==
    \A file \in DOMAIN indexing.ingestions :
        \A m, n \in DOMAIN indexing.ingestions[file] :
            /\ indexing.ingestions[file][m].ids = indexing.ingestions[file][n].ids
            /\ indexing.ingestions[file][m].size = indexing.ingestions[file][n].size


(***************************************************************************)
(* The chunkers: awakened/auto-index.py chunk_text and                     *)
(* awakened/batch_processor.py create_chunks (SpecChunker).                *)
(***************************************************************************)
\* The characters of a text: a letter, a letter of two bytes in UTF-8 ("E"),
\* sentence terminators, the space and the newline.
Chars == {"a", "E", ".", "!", " ", "LF"}

Whitespace == {" ", "LF"}

\* The class [.!?] of the regular expression of create_chunks.
Terminators == {".", "!", "?"}

Texts == UNION {[1..n -> Chars] : n \in 0..MaxText}

\* len(s.encode('utf-8'))
RECURSIVE Utf8Length(_)
Utf8Length(s) ==
    IF s = <<>> THEN 0
    ELSE (IF Head(s) = "E" THEN 2 ELSE 1) + Utf8Length(Tail(s))

\* str.split(sep): the pieces between the separators, empty ones included.
RECURSIVE split(_, _)
split(text, sep) ==
    LET at == {k \in DOMAIN text : text[k] = sep}
    IN IF at = {} THEN <<text>>
       ELSE LET k == CHOOSE k \in at : \A m \in at : k <= m
            IN <<SubSeq(text, 1, k - 1)>> \o split(SubSeq(text, k + 1, Len(text)), sep)

\* str.strip(): without the whitespace at both ends.
strip(s) ==
    LET keep == {k \in DOMAIN s : s[k] \notin Whitespace}
    IN IF keep = {} THEN <<>>
       ELSE SubSeq(s, CHOOSE k \in keep : \A m \in keep : k <= m,
                      CHOOSE k \in keep : \A m \in keep : k >= m)

\* re.split(r'(?<=[.!?])\s+', text): the text is cut at every run of
\* whitespace that follows a terminator, and the run is dropped.
RECURSIVE re_split(_)
re_split(text) ==
    LET at == {k \in DOMAIN text :
                  k > 1 /\ text[k] \in Whitespace /\ text[k - 1] \in Terminators}
    IN IF at = {} THEN <<text>>
       ELSE LET k == CHOOSE k \in at : \A m \in at : k <= m
                rest == {m \in k..Len(text) : text[m] \notin Whitespace}
                e == IF rest = {} THEN Len(text) + 1
                     ELSE CHOOSE m \in rest : \A n \in rest : m <= n
            IN <<SubSeq(text, 1, k - 1)>> \o re_split(SubSeq(text, e, Len(text)))

\* ' '.join(current_chunk)
RECURSIVE join(_)
join(current_chunk) ==
    IF current_chunk = <<>> THEN <<>>
    ELSE IF Len(current_chunk) = 1 THEN current_chunk[1]
    ELSE current_chunk[1] \o <<" ">> \o join(Tail(current_chunk))

\* The loop of both chunkers from its k-th sentence on: a sentence that would
\* take the running size over the limit closes the current chunk, if there is
\* one, and starts the next; the last chunk is closed after the loop. The
\* result is the sentences of each chunk.
RECURSIVE Pack(_, _, _, _, _, _)
Pack(sentences, sizes, limit, k, current_chunk, current_size) ==
    LET closed == IF current_chunk # <<>> THEN <<current_chunk>> ELSE <<>>
    IN IF k > Len(sentences) THEN closed
       ELSE IF current_size + sizes[k] > limit
       THEN closed \o Pack(sentences, sizes, limit, k + 1, <<sentences[k]>>, sizes[k])
       ELSE Pack(sentences, sizes, limit, k + 1,
                 Append(current_chunk, sentences[k]), current_size + sizes[k])

\* EbookProcessor.chunk_text: the sentences are the pieces between full
\* stops, stripped, with a full stop added; their sizes are in bytes.
chunk_text(text, MAX_CHUNK_SIZE) ==
    LET pieces == split(text, ".")
        sentences == [k \in DOMAIN pieces |-> Append(strip(pieces[k]), ".")]
        sizes == [k \in DOMAIN sentences |-> Utf8Length(sentences[k])]
    IN Pack(sentences, sizes, MAX_CHUNK_SIZE, 1, <<>>, 0)

\* BatchPDFProcessor.create_chunks on the text of a page: the sentences are
\* the pieces of the regular expression; their sizes are in characters.
create_chunks(text, chunk_size) ==
    LET sentences == re_split(text)
        sizes == [k \in DOMAIN sentences |-> Len(sentences[k])]
    IN Pack(sentences, sizes, chunk_size, 1, <<>>, 0)

\* chunks.append(' '.join(current_chunk)) for each chunk.
ChunkTexts(groups) == [k \in DOMAIN groups |-> join(groups[k])]

\* MAX_CHUNK_SIZE and CHUNK_SIZE are attributes of the processor, 1000 in
\* both; here a call is made with any text and any limit up to MaxLimit.
InitChunker ==
    /\ index = {}
    /\ completed = {}
    /\ table = [f \in FileIds |-> NoItem]
    /\ worker = [w \in Workers |-> Idle]
    /\ faults = 0
    /\ chat = NoChat
    /\ auto = NoAuto
    /\ indexing = NoIndexing
    /\ upload = NoUpload
    /\ compressor = NoCompressor
    /\ assistants = NoAssistants
    /\ verifier = NoVerifier
    /\ \E text \in Texts : \E limit \in 1..MaxLimit :
          chunker = [pc |-> "input", text |-> text, limit |-> limit,
                     groups |-> <<>>, chunks |-> <<>>]

\* create_embeddings: chunks = self.chunk_text(text).
CallChunkText ==
    /\ chunker.pc = "input"
    /\ LET groups == chunk_text(chunker.text, chunker.limit)
       IN chunker' = [chunker EXCEPT !.groups = groups, !.chunks = ChunkTexts(groups),
                                     !.pc = "chunk_text"]
    /\ UNCHANGED <<ingestVars, faults, chat, auto, indexing, upload, compressor, assistants, verifier>>

\* process_single_pdf: chunks = self.create_chunks(page_data).
CallCreateChunks ==
    /\ chunker.pc = "input"
    /\ LET groups == create_chunks(chunker.text, chunker.limit)
       IN chunker' = [chunker EXCEPT !.groups = groups, !.chunks = ChunkTexts(groups),
                                     !.pc = "create_chunks"]
    /\ UNCHANGED <<ingestVars, faults, chat, auto, indexing, upload, compressor, assistants, verifier>>

NextChunker ==
    \/ CallChunkText
    \/ CallCreateChunks

SpecChunker == InitChunker /\ [][NextChunker]_vars

\* C12: every chunk a chunker returns has at most T bytes, T the chunk size
\* limit, unless it is one single sentence of more than T bytes.
C12_ChunkWithinLimit ==
    chunker.pc \in {"chunk_text", "create_chunks"} =>
        \A k \in DOMAIN chunker.chunks :
            \/ Utf8Length(chunker.chunks[k]) <= chunker.limit
            \/ /\ Len(chunker.groups[k]) = 1
               /\ Utf8Length(chunker.groups[k][1]) > chunker.limit

RECURSIVE Concatenation(_)
Concatenation(chunks) ==
    IF chunks = <<>> THEN <<>> ELSE Head(chunks) \o Concatenation(Tail(chunks))

\* C13: the chunks a chunker returns, concatenated in order, are the text it
\* was given.
C13_ChunksReconstructText ==
    chunker.pc \in {"chunk_text", "create_chunks"} =>
        Concatenation(chunker.chunks) = chunker.text

\* C19: every chunk a chunker returns is a non-empty string, whatever the text.
C19_ChunksNonEmpty ==
    chunker.pc \in {"chunk_text", "create_chunks"} =>
        \A k \in DOMAIN chunker.chunks : chunker.chunks[k] # <<>>


(***************************************************************************)
(* BatchPDFProcessor.batch_upload_vectors on any embeddings (SpecUpload).  *)
(***************************************************************************)
\* The lengths an embedding of the service may have: none, one short, the
\* index's, one long.
Dimensions == {0, dimension - 1, dimension, dimension + 1}

\* batch_upload_vectors(file_id, embeddings, chunks) is called with the first
\* chunks of a document and an embedding of any length for each.
InitUpload ==
    /\ index = {}
    /\ completed = {}
    /\ table = [f \in FileIds |-> NoItem]
    /\ worker = [w \in Workers |-> Idle]
    /\ faults = 0
    /\ chat = NoChat
    /\ auto = NoAuto
    /\ indexing = NoIndexing
    /\ chunker = NoChunker
    /\ \E n \in 0..(SmallDoc + 1) : \E dims \in [1..n -> Dimensions] :
          LET chunks == SubSeq(Chunks("a.pdf"), 1, n)
          IN upload = [pc |-> "called", file_id |-> generate_file_id("a.pdf"),
                       chunks |-> chunks,
                       embeddings |-> [k \in 1..n |-> [of |-> chunks[k], dim |-> dims[k]]],
                       vectors |-> <<>>, index |-> {},
                       upload_success |-> FALSE, status |-> "none"]
    /\ compressor = NoCompressor
    /\ assistants = NoAssistants
    /\ verifier = NoVerifier

\* batch_upload_vectors builds the vectors.
BuildVectors ==
    /\ upload.pc = "called"
    /\ upload' = [upload EXCEPT
           !.vectors = VectorsFrom(upload.file_id, upload.embeddings, upload.chunks),
           !.pc = "built"]
    /\ UNCHANGED <<ingestVars, faults, chat, auto, indexing, chunker, compressor, assistants, verifier>>

\* batch_upsert writes them, here in at most one batch, and returns
\* successful_uploads == total_vectors; with no vector the loop has no
\* iteration. An upsert that fails max_retries times makes it return False.
UpsertVectors ==
    /\ upload.pc = "built"
    /\ LET total_vectors == Len(upload.vectors)
           batch == Slice(upload.vectors, 0, batch_size)
           successful_uploads == Len(batch)
       IN \/ upload' = [upload EXCEPT
                 !.index = IF LoopDone(0, total_vectors) THEN upload.index
                           ELSE Upsert(upload.index, batch),
                 !.upload_success = (successful_uploads = total_vectors),
                 !.pc = "upserted"]
          \/ /\ ~LoopDone(0, total_vectors)
             /\ upload' = [upload EXCEPT !.upload_success = FALSE, !.pc = "raised"]
    /\ UNCHANGED <<ingestVars, faults, chat, auto, indexing, chunker, compressor, assistants, verifier>>

\* process_single_pdf after batch_upload_vectors returned: "if
\* upload_success" reports success, else raises and reports the error.
ReportUpload ==
    /\ upload.pc \in {"upserted", "raised"}
    /\ upload' = [upload EXCEPT
           !.status = IF upload.upload_success THEN "success" ELSE "error",
           !.pc = "returned"]
    /\ UNCHANGED <<ingestVars, faults, chat, auto, indexing, chunker, compressor, assistants, verifier>>

NextVectors ==
    \/ BuildVectors
    \/ UpsertVectors
    \/ ReportUpload

SpecUpload == InitUpload /\ [][NextVectors]_vars

\* C16: the vectors built and written have the index's dimension and the
\* values the service returned for their chunk; the embeddings of any other
\* length are the ones left out; and each vector kept has the id and the
\* metadata of its chunk's own position, whatever was left out.
C16_OnlyValidVectors ==
    upload.pc \in {"built", "upserted"} =>
        /\ \A j \in DOMAIN upload.vectors :
              LET v == upload.vectors[j]
                  idx == v.id[2]
              IN /\ v.values.dim = dimension
                 /\ idx + 1 \in DOMAIN upload.embeddings
                 /\ v.values = upload.embeddings[idx + 1]
                 /\ v.id = <<upload.file_id, idx>>
                 /\ v.metadata = [text |-> Truncate(upload.chunks[idx + 1].text,
                                                    METADATA_TEXT_LIMIT),
                                  file_id |-> upload.file_id,
                                  chunk_id |-> idx]
        /\ {upload.vectors[j].id[2] : j \in DOMAIN upload.vectors}
              = {k - 1 : k \in {k \in DOMAIN upload.embeddings :
                                   upload.embeddings[k].dim = dimension}}
        /\ upload.pc = "upserted" => upload.index = Range(upload.vectors)

\* C16 witness: of three embeddings the middle one is one short and was left
\* out; the first and the third are in the index.
C16_Witness ==
    /\ upload.pc = "upserted"
    /\ Len(upload.embeddings) = 3
    /\ upload.embeddings[2].dim = dimension - 1
    /\ {v.id[2] : v \in upload.index} = {0, 2}

\* C26: a document is reported as a success only if at least one vector was
\* upserted for it.
C26_SuccessNeedsAVector ==
    (upload.pc = "returned" /\ upload.status = "success") => upload.index # {}

(***************************************************************************)
(* The compressors: awakened/compress_ebook.py and                         *)
(* awakened/s3_ebook_compress.py, EbookCompressor.process_file on one file *)
(* of the bucket, called again and again.                                  *)
(***************************************************************************)
Modules == {"compress_ebook", "s3_ebook_compress"}

\* The S3 calls of process_file and of the deduplication check, in order;
\* one of them may raise in a call of process_file.
S3Calls == {"none", "download", "head_object", "put_prefix", "get_compressed",
            "get_original", "put_object"}

\* What a raising S3 call raises: a ClientError with its code, or an error
\* of another class (a connection error).
ClientError(code) == [ok |-> FALSE, client_error |-> TRUE, Code |-> code, ContentLength |-> 0]

S3Errors == {ClientError("404"), ClientError("500"),
             [ok |-> FALSE, client_error |-> FALSE, Code |-> "connection", ContentLength |-> 0]}

NoObject == [exists |-> FALSE, size |-> 0]

S3Object(size) == [exists |-> TRUE, size |-> size]

\* s3_client.head_object: a missing key is the ClientError 404.
head_object(exists, raises, error) ==
    IF raises THEN error
    ELSE IF ~exists THEN ClientError("404")
    ELSE [ok |-> TRUE, client_error |-> FALSE, Code |-> "", ContentLength |-> 0]

\* s3_client.get_object: a missing key is the ClientError NoSuchKey.
get_object(obj, raises, error) ==
    IF raises THEN error
    ELSE IF ~obj.exists THEN ClientError("NoSuchKey")
    ELSE [ok |-> TRUE, client_error |-> FALSE, Code |-> "", ContentLength |-> obj.size]

NotSmallerStrict(compressed_size, original_size) == compressed_size > original_size
\* The comparison of the check: the artifact is not smaller than the source.
NotSmaller(compressed_size, original_size) == compressed_size >= original_size

\* What the try block of the check does with the sizes of the two objects:
\* the value returned, and whether the warning of the outer handler is logged.
CompareSizes(response, original_response) ==
    IF response.ok /\ original_response.ok
    THEN [value |-> ~NotSmaller(response.ContentLength, original_response.ContentLength),
          warning |-> FALSE]
    ELSE LET e == IF ~response.ok THEN response ELSE original_response
         IN IF e.client_error /\ e.Code = "404"
            THEN [value |-> FALSE, warning |-> FALSE]
            ELSE [value |-> FALSE, warning |-> TRUE]

\* compress_ebook.py _check_if_already_processed: head_object and get_object
\* of the compressed key, get_object of the source.
check_compress_ebook(c, raising, error) ==
    LET obj == head_object(c.artifact.exists, raising = "head_object", error)
        response == IF obj.ok THEN get_object(c.artifact, raising = "get_compressed", error)
                    ELSE obj
        original_response == get_object(c.original, raising = "get_original", error)
    IN CompareSizes(response, original_response) @@ [prefix |-> c.prefix]

\* s3_ebook_compress.py _check_if_already_processed: the prefix marker is
\* looked up first and created when the lookup fails, whatever the failure.
check_s3_ebook_compress(c, raising, error) ==
    LET marker == head_object(c.prefix, raising = "head_object", error)
        response == get_object(c.artifact, raising = "get_compressed", error)
        original_response == get_object(c.original, raising = "get_original", error)
    IN IF ~marker.ok
       THEN IF raising = "put_prefix"
            THEN [value |-> FALSE, warning |-> TRUE, prefix |-> c.prefix]
            ELSE [value |-> FALSE, warning |-> FALSE, prefix |-> TRUE]
       ELSE CompareSizes(response, original_response) @@ [prefix |-> c.prefix]

check_if_already_processed(c, raising, error) ==
    IF c.module = "compress_ebook"
    THEN check_compress_ebook(c, raising, error)
    ELSE check_s3_ebook_compress(c, raising, error)

\* _verify_compression: the smaller of the two contents.
verify_compression(original_size, compressed_size) ==
    IF compressed_size < original_size THEN compressed_size ELSE original_size

NotCalled == [check |-> "none", warning |-> FALSE, compressed |-> FALSE,
              outcome |-> "none"]

\* One compressor and one source file; the bucket may already hold an
\* artifact of any size for it, and the marker of the compressed prefix.
InitCompress ==
    /\ index = {}
    /\ completed = {}
    /\ table = [f \in FileIds |-> NoItem]
    /\ worker = [w \in Workers |-> Idle]
    /\ faults = 0
    /\ chat = NoChat
    /\ auto = NoAuto
    /\ indexing = NoIndexing
    /\ chunker = NoChunker
    /\ upload = NoUpload
    /\ assistants = NoAssistants
    /\ verifier = NoVerifier
    /\ \E module \in Modules, original_size \in 1..MaxSize, prefix \in BOOLEAN,
          artifact \in {NoObject} \cup {S3Object(n) : n \in 1..(MaxSize + 1)} :
          compressor = [pc |-> "ready", module |-> module,
                        original |-> S3Object(original_size),
                        artifact |-> artifact, prefix |-> prefix,
                        calls |-> 0, last |-> NotCalled]

\* process_file(filename): download, deduplication check, compression,
\* upload of the artifact.
process_file_compress ==
    /\ compressor.pc = "ready"
    /\ compressor.calls < MaxCalls
    /\ \E raising \in S3Calls, error \in S3Errors,
          compressed_size \in 1..(compressor.original.size + 1) :
          LET content == get_object(compressor.original, raising = "download", error)
              checked == check_if_already_processed(compressor, raising, error)
              compressed_content ==
                  verify_compression(compressor.original.size, compressed_size)
          IN compressor' =
                 IF ~content.ok
                 THEN [compressor EXCEPT !.calls = @ + 1,
                          !.last = [NotCalled EXCEPT !.outcome = "error"]]
                 ELSE IF checked.value
                 THEN [compressor EXCEPT !.calls = @ + 1,
                          !.prefix = checked.prefix,
                          !.last = [check |-> "True", warning |-> checked.warning,
                                    compressed |-> FALSE,
                                    outcome |-> "already processed"]]
                 ELSE IF raising = "put_object"
                 THEN [compressor EXCEPT !.calls = @ + 1,
                          !.prefix = checked.prefix,
                          !.last = [check |-> "False", warning |-> checked.warning,
                                    compressed |-> TRUE, outcome |-> "error"]]
                 ELSE [compressor EXCEPT !.calls = @ + 1,
                          !.prefix = checked.prefix,
                          !.artifact = S3Object(compressed_content),
                          !.last = [check |-> "False", warning |-> checked.warning,
                                    compressed |-> TRUE,
                                    outcome |-> "compressed"]]
    /\ UNCHANGED <<ingestVars, faults, chat, auto, indexing, chunker, upload,
                   assistants, verifier>>

NextCompress == process_file_compress

SpecCompress == InitCompress /\ [][NextCompress]_vars

\* C22: a call of process_file whose deduplication check ran reports the file
\* as already processed only if the artifact existed and was strictly smaller
\* than the source; when the artifact was missing or not smaller, or the
\* check logged its error, the check answered False and the file was
\* compressed again.
C22_ProcessedOnlyWhenSmaller ==
    [][(compressor'.calls > compressor.calls /\ compressor'.last.check # "none") =>
          /\ compressor'.last.check = "True" =>
                /\ compressor.artifact.exists
                /\ compressor.artifact.size < compressor.original.size
                /\ compressor'.last.outcome = "already processed"
                /\ compressor'.artifact = compressor.artifact
          /\ (\/ ~compressor.artifact.exists
              \/ compressor.artifact.size >= compressor.original.size
              \/ compressor'.last.warning) =>
                /\ compressor'.last.check = "False"
                /\ compressor'.last.compressed]_vars

\* A check that raised on an artifact that exists and is smaller than the
\* source: the file was compressed again.
C22_Witness ==
    /\ compressor.pc = "ready"
    /\ compressor.last.check = "False"
    /\ compressor.last.warning
    /\ compressor.last.compressed
    /\ compressor.calls = 2
    /\ compressor.artifact.exists
    /\ compressor.artifact.size < compressor.original.size

(***************************************************************************)
(* The assistant-creation pipeline: id_and_tag/id.py, EbookProcessor       *)
(* process_files over the bucket, run again and again.                     *)
(***************************************************************************)
\* An S3 key: its folders, and the name and extension of the file.
S3Key(dirs, name, ext) == [dirs |-> dirs, name |-> name, ext |-> ext]

\* The objects list_objects_v2 returns under the prefix.
Contents == << S3Key(<<"compressed">>, "a", "pdf"),
               S3Key(<<"compressed">>, "b", "PDF"),
               S3Key(<<"compressed">>, "c", "epub") >>

\* str.lower() of an extension.
Lower(ext) == IF ext = "PDF" THEN "pdf" ELSE ext

\* f"compressed/{...}": the path with the folder compressed/ put before it.
UnderCompressed(dirs, name, ext) == S3Key(<<"compressed">> \o dirs, name, ext)

\* pdf_files: f"compressed/{os.path.basename(item['Key'])}" of the objects
\* whose key ends with .pdf, whatever the case.
PdfFiles ==
    LET pdfs == SelectSeq(Contents, LAMBDA item : Lower(item.ext) = "pdf")
    IN [k \in DOMAIN pdfs |-> UnderCompressed(<<>>, pdfs[k].name, pdfs[k].ext)]

NoKey == S3Key(<<>>, "none", "none")

AssistantsStart ==
    [pc |-> "idle", runs |-> 0, cursor |-> 0, file_key |-> NoKey,
     openai_file |-> 0, vector_store |-> 0, assistant |-> 0,
     openai |-> [files |-> 0, vector_stores |-> 0, assistants |-> 0],
     table |-> {}, results |-> <<>>, succeeded |-> {}]

InitAssistants ==
    /\ index = {}
    /\ completed = {}
    /\ table = [f \in FileIds |-> NoItem]
    /\ worker = [w \in Workers |-> Idle]
    /\ faults = 0
    /\ chat = NoChat
    /\ auto = NoAuto
    /\ indexing = NoIndexing
    /\ chunker = NoChunker
    /\ upload = NoUpload
    /\ compressor = NoCompressor
    /\ verifier = NoVerifier
    /\ assistants = AssistantsStart

\* process_single_file returned: the result is appended, and the loop of
\* process_files goes to its next file or ends.
Appended(a, status) ==
    LET b == [a EXCEPT !.results = Append(a.results,
                                          [file_key |-> a.file_key, status |-> status]),
                       !.openai_file = 0, !.vector_store = 0, !.assistant = 0]
    IN IF a.cursor < Len(PdfFiles)
       THEN [b EXCEPT !.cursor = a.cursor + 1, !.file_key = PdfFiles[a.cursor + 1],
                      !.pc = "get_item"]
       ELSE [b EXCEPT !.cursor = 0, !.file_key = NoKey, !.pc = "idle"]

\* main(): process_files lists the bucket and takes its first PDF.
process_files_assistants ==
    /\ assistants.pc = "idle"
    /\ assistants.runs < MaxInvocations
    /\ assistants' = [assistants EXCEPT !.runs = assistants.runs + 1,
                                        !.results = <<>>,
                                        !.cursor = 1,
                                        !.file_key = PdfFiles[1],
                                        !.pc = "get_item"]
    /\ UNCHANGED <<ingestVars, faults, chat, auto, indexing, chunker, upload,
                   compressor, verifier>>

\* A step of process_single_file that raises: the handler returns 'failed'.
step_fails ==
    /\ CanFault
    /\ faults' = faults + 1
    /\ assistants' = Appended(assistants, "failed")

\* table.get_item(Key={'file_key': file_key}): skipped when the item exists
\* with status 'active'.
get_existing_item ==
    /\ assistants.pc = "get_item"
    /\ \/ /\ assistants' =
                IF \E item \in assistants.table :
                       item.file_key = assistants.file_key /\ item.status = "active"
                THEN Appended(assistants, "skipped")
                ELSE [assistants EXCEPT !.pc = "download_file"]
          /\ UNCHANGED faults
       \/ step_fails
    /\ UNCHANGED <<ingestVars, chat, auto, indexing, chunker, upload,
                   compressor, verifier>>

\* s3_client.download_file(self.bucket, file_key, local_path)
download_for_assistant ==
    /\ assistants.pc = "download_file"
    /\ \/ /\ assistants' = [assistants EXCEPT !.pc = "files_create"]
          /\ UNCHANGED faults
       \/ step_fails
    /\ UNCHANGED <<ingestVars, chat, auto, indexing, chunker, upload,
                   compressor, verifier>>

\* openai_client.files.create: a new OpenAI file.
files_create ==
    /\ assistants.pc = "files_create"
    /\ \/ /\ assistants' = [assistants EXCEPT
                 !.openai.files = assistants.openai.files + 1,
                 !.openai_file = assistants.openai.files + 1,
                 !.pc = "vector_stores_create"]
          /\ UNCHANGED faults
       \/ step_fails
    /\ UNCHANGED <<ingestVars, chat, auto, indexing, chunker, upload,
                   compressor, verifier>>

\* beta.vector_stores.create and vector_stores.files.create: a new vector
\* store, and the file added to it.
vector_stores_create ==
    /\ assistants.pc = "vector_stores_create"
    /\ \/ /\ assistants' = [assistants EXCEPT
                 !.openai.vector_stores = assistants.openai.vector_stores + 1,
                 !.vector_store = assistants.openai.vector_stores + 1,
                 !.pc = "assistants_create"]
          /\ UNCHANGED faults
       \/ step_fails
    /\ UNCHANGED <<ingestVars, chat, auto, indexing, chunker, upload,
                   compressor, verifier>>

\* beta.assistants.create: a new assistant on the vector store.
assistants_create ==
    /\ assistants.pc = "assistants_create"
    /\ \/ /\ assistants' = [assistants EXCEPT
                 !.openai.assistants = assistants.openai.assistants + 1,
                 !.assistant = assistants.openai.assistants + 1,
                 !.pc = "put_item"]
          /\ UNCHANGED faults
       \/ step_fails
    /\ UNCHANGED <<ingestVars, chat, auto, indexing, chunker, upload,
                   compressor, verifier>>

\* table.put_item(Item=item) with 'file_key': f"compressed/{file_key}", then
\* the 'success' result.
put_assistant_item ==
    /\ assistants.pc = "put_item"
    /\ \/ /\ LET a == assistants
                 item == [file_key |-> UnderCompressed(a.file_key.dirs, a.file_key.name,
                                                       a.file_key.ext),
                          status |-> "active",
                          assistant_id |-> a.assistant,
                          file_id |-> a.openai_file,
                          vector_store_id |-> a.vector_store]
             IN assistants' = Appended(
                    [a EXCEPT !.table = {i \in a.table : i.file_key # item.file_key}
                                            \cup {item},
                              !.succeeded = a.succeeded \cup {a.file_key}],
                    "success")
          /\ UNCHANGED faults
       \/ step_fails
    /\ UNCHANGED <<ingestVars, chat, auto, indexing, chunker, upload,
                   compressor, verifier>>

NextAssistants ==
    \/ process_files_assistants
    \/ get_existing_item
    \/ download_for_assistant
    \/ files_create
    \/ vector_stores_create
    \/ assistants_create
    \/ put_assistant_item

SpecAssistants == InitAssistants /\ [][NextAssistants]_vars

\* C29: once process_single_file has succeeded for a file, a step of a later
\* run on that file in which nothing fails creates no OpenAI file, vector
\* store or assistant, and the result the run gets for the file is 'skipped'.
C29_SecondRunSkips ==
    [][(/\ assistants.pc # "idle"
        /\ assistants.file_key \in assistants.succeeded
        /\ faults' = faults) =>
           /\ assistants'.openai = assistants.openai
           /\ Len(assistants'.results) > Len(assistants.results) =>
                 assistants'.results[Len(assistants'.results)].status = "skipped"]_vars

(***************************************************************************)
(* The Pinecone verification: PineconeManager.verify_connection and        *)
(* BatchPDFProcessor.verify_pinecone, on a namespace that may hold the     *)
(* vectors of documents.                                                   *)
(***************************************************************************)
Verifications == {"verify_connection", "verify_pinecone"}

\* Ids of vectors a namespace may hold before a verification.
DocumentIds == {<<"md5-a", 0>>, <<"md5-a", 1>>, <<"md5-b", 0>>}

\* f"test-{uuid.uuid4()}": a fresh id for each verification.
TestId(n) == <<"test", n>>

InitVerify ==
    /\ index = {}
    /\ completed = {}
    /\ table = [f \in FileIds |-> NoItem]
    /\ worker = [w \in Workers |-> Idle]
    /\ faults = 0
    /\ chat = NoChat
    /\ auto = NoAuto
    /\ indexing = NoIndexing
    /\ chunker = NoChunker
    /\ upload = NoUpload
    /\ compressor = NoCompressor
    /\ assistants = NoAssistants
    /\ \E ids \in SUBSET DocumentIds :
          verifier = [pc |-> "idle", fn |-> "none", calls |-> 0, test_id |-> TestId(0),
                      namespace |-> ids, result |-> "none"]

\* The handler of the verification: the error is logged, False is returned.
VerificationFailed(v) == [v EXCEPT !.result = "False", !.pc = "returned"]

\* verify_connection or verify_pinecone is called.
verify ==
    /\ verifier.pc \in {"idle", "returned"}
    /\ verifier.calls < MaxInvocations
    /\ \E fn \in Verifications :
          verifier' = [verifier EXCEPT !.fn = fn, !.calls = verifier.calls + 1,
                                       !.result = "none", !.pc = "stats"]
    /\ UNCHANGED <<ingestVars, faults, chat, auto, indexing, chunker, upload,
                   compressor, assistants>>

\* describe_index_stats / get_stats, then the test id is drawn.
describe_index_stats ==
    /\ verifier.pc = "stats"
    /\ \/ verifier' = [verifier EXCEPT !.test_id = TestId(verifier.calls),
                                       !.pc = "upsert"]
       \/ verifier' = VerificationFailed(verifier)
    /\ UNCHANGED <<ingestVars, faults, chat, auto, indexing, chunker, upload,
                   compressor, assistants>>

\* The upsert of the test vector. In verify_connection a raise goes to the
\* handler; in verify_pinecone batch_upsert returns False instead, and the
\* verification goes on without reading what it returned.
upsert_test_vector ==
    /\ verifier.pc = "upsert"
    /\ \/ verifier' = [verifier EXCEPT
              !.namespace = verifier.namespace \cup {verifier.test_id},
              !.pc = "query"]
       \/ verifier' = IF verifier.fn = "verify_connection"
                      THEN VerificationFailed(verifier)
                      ELSE [verifier EXCEPT !.pc = "query"]
    /\ UNCHANGED <<ingestVars, faults, chat, auto, indexing, chunker, upload,
                   compressor, assistants>>

\* index.query(vector=test_vector, top_k=1): the match is the test vector, or
\* another vector or none while the upsert is not yet visible to queries; the
\* call may raise. Anything but the test id raises "Test vector query failed".
query_test_vector ==
    /\ verifier.pc = "query"
    /\ \E matches \in {<<>>} \cup {<<id>> : id \in verifier.namespace} :
          verifier' = IF matches # <<>> /\ matches[1] = verifier.test_id
                      THEN [verifier EXCEPT !.pc = "delete"]
                      ELSE VerificationFailed(verifier)
    /\ UNCHANGED <<ingestVars, faults, chat, auto, indexing, chunker, upload,
                   compressor, assistants>>

\* index.delete(ids=[test_id]), then return True; a raise returns False.
delete_test_vector ==
    /\ verifier.pc = "delete"
    /\ \/ verifier' = [verifier EXCEPT
              !.namespace = verifier.namespace \ {verifier.test_id},
              !.result = "True", !.pc = "returned"]
       \/ verifier' = VerificationFailed(verifier)
    /\ UNCHANGED <<ingestVars, faults, chat, auto, indexing, chunker, upload,
                   compressor, assistants>>

NextVerify ==
    \/ verify
    \/ describe_index_stats
    \/ upsert_test_vector
    \/ query_test_vector
    \/ delete_test_vector

SpecVerify == InitVerify /\ [][NextVerify]_vars

\* C30: after a verification has returned, True or False, the test vector it
\* upserted is not in the namespace.
C30_TestVectorRemoved ==
    verifier.pc = "returned" => verifier.test_id \notin verifier.namespace

====
